---- MODULE Spec2Model ----
(***************************************************************************)
(* Model of the heft OpenAPI plugins:                                      *)
(*   - OpenApiTypescriptPlugin: _runOpenApiTypescriptAsync (the batch over *)
(*     the configured entries, bounded by Async.forEachAsync with          *)
(*     concurrency 5, and the watch branch) and _generateOpenApiTypescript *)
(*     (one conversion: read, parse, generate, write);                     *)
(*   - OpenApiCodegenPlugin: runOpenApiCommandAsync (one run of the        *)
(*     external generator) and the two runs of the preCompile hook.        *)
(*                                                                         *)
(* JavaScript runs one continuation at a time: an action is one            *)
(* continuation, from the completion of the awaited operation to the next  *)
(* await (or to the end of the function, together with the promise         *)
(* reactions that follow it in the same microtask checkpoint).             *)
(*                                                                         *)
(* The collaborators (file system, parsers, generator, child process,      *)
(* Async.forEachAsync of @rushstack/node-core-library) are modelled by     *)
(* what the plugin observes of them.  File-system reads and writes fail    *)
(* where the code handles the failure; FileSystem.deleteFileAsync,         *)
(* ensureFolderAsync and the writes of the two log files, whose failures   *)
(* the code does not handle, succeed.                                      *)
(***************************************************************************)
EXTENDS Bags, FiniteSets, Integers, Naturals, Sequences, TLC

VARIABLES
    entries,      \* options.entries: sequence of [sourcePath, outputPath]
    isWatchMode,  \* build.properties.watchMode
    fs,           \* the file system: resolved path -> Absent, Unreadable or content
    fs0,          \* the file system when the run began (history, never changes)
    readOnly,     \* the paths a write fails on
    tasks,        \* the _generateOpenApiTypescript calls made so far
    log,          \* the logger: bag of the error records emitted
    forEach,      \* the state of the Async.forEachAsync call
    runPc,        \* position of _runOpenApiTypescriptAsync
    watchers,     \* entries a chokidar watcher is registered for
    events,       \* file-system and watcher events so far
    cmd           \* the OpenApiCodegenPlugin preCompile hook

vars == <<entries, isWatchMode, fs, fs0, readOnly, tasks, log, forEach, runPc,
          watchers, events, cmd>>

(***************************************************************************)
(* Bounds                                                                  *)
(***************************************************************************)
\* Entries of a long batch: one more than the concurrency, so that an entry waits.
NumEntries == 6

\* { concurrency: 5 }
concurrency == 5

(***************************************************************************)
(* Paths and files                                                         *)
(***************************************************************************)
\* A path is a sequence of characters.
Digits == <<"1", "2", "3", "4", "5", "6", "7", "8", "9">>

ExtYaml == <<".", "y", "a", "m", "l">>
ExtYml == <<".", "y", "m", "l">>
ExtJson == <<".", "j", "s", "o", "n">>
ExtTxt == <<".", "t", "x", "t">>
Exts == {ExtYaml, ExtYml, ExtJson, ExtTxt}

\* heftConfiguration.buildFolder
buildFolder == <<"/", "b">>

\* String.prototype.endsWith
endsWith(s, suffix) ==
    /\ Len(suffix) <= Len(s)
    /\ SubSeq(s, Len(s) - Len(suffix) + 1, Len(s)) = suffix

\* path.resolve(base, p) for an absolute base and a path without . or .. segments
resolve(base, p) ==
    IF p # <<>> /\ p[1] = "/" THEN p
    ELSE IF p = <<>> THEN base
    ELSE base \o <<"/">> \o p

resolvedSourcePath(entry) == resolve(buildFolder, entry.sourcePath)

resolvedOutputPath(entry) == resolve(buildFolder, entry.outputPath)

\* File states.  A source holds one of four texts; an output holds a generated
\* text or a stale one left by an earlier build.
Absent == "ENOENT"
Unreadable == "EACCES"
Texts == {"JSONDOC", "YAMLDOC", "GARBAGE", "BADDOC"}
SourceStates == {Absent, Unreadable} \cup Texts
Stale == "STALE"

None == "undefined"
ParseError == "SyntaxError"
GenError == "GenError"

\* JsonFile.parseString: JSONDOC is an OpenAPI document in JSON, BADDOC is JSON
\* that is no OpenAPI document, YAMLDOC and GARBAGE are no JSON.
parseString(text) ==
    CASE text = "JSONDOC" -> "DOC_J"
      [] text = "BADDOC" -> "DOC_BAD"
      [] OTHER -> ParseError

\* jsYaml.safeLoad: every JSON text is YAML; YAMLDOC is an OpenAPI document in
\* YAML's block syntax; GARBAGE is no YAML.
safeLoad(text) ==
    CASE text = "JSONDOC" -> "DOC_J"
      [] text = "YAMLDOC" -> "DOC_Y"
      [] text = "BADDOC" -> "DOC_BAD"
      [] OTHER -> ParseError

\* openapiTypescript(parsedApiFile): the generated text, or a failure
openapiTypescript(doc) ==
    CASE doc = "DOC_J" -> "TS_J"
      [] doc = "DOC_Y" -> "TS_Y"
      [] OTHER -> GenError

(***************************************************************************)
(* The logger                                                              *)
(***************************************************************************)
ErrorRecord(kind, path) == [kind |-> kind, path |-> path]

emitError(l, rec) == l (+) SetToBag({rec})

(***************************************************************************)
(* Async.forEachAsync(resolvedEntries, callback, { concurrency: 5 })       *)
(*                                                                         *)
(* The library call, as the plugin depends on it: callbacks are started in *)
(* array order while fewer than `concurrency` are in progress; the promise *)
(* resolves when the iterator is exhausted and nothing is in progress; the *)
(* first rejected callback rejects the promise at once, nothing is started *)
(* after that, and the callbacks in progress are left to run.              *)
(***************************************************************************)
\* Faulty variant: one operation too many is admitted.
hasCapacityOffByOne(q) == q.operationsInProgress <= concurrency

\* while (operationsInProgress < concurrency && ...)
hasCapacity(q) == q.operationsInProgress < concurrency

ForEachIdle ==
    [operationsInProgress |-> 0, arrayIndex |-> 0, length |-> 0,
     iteratorIsComplete |-> FALSE, promiseHasResolvedOrRejected |-> FALSE,
     promise |-> "none"]

\* The operations are started while there is capacity; taking from the exhausted
\* iterator marks it complete.
RECURSIVE queueOperations(_)
queueOperations(q) ==
    IF hasCapacity(q) /\ ~q.iteratorIsComplete /\ ~q.promiseHasResolvedOrRejected
    THEN IF q.arrayIndex < q.length
         THEN queueOperations([q EXCEPT !.operationsInProgress = @ + 1,
                                        !.arrayIndex = @ + 1])
         ELSE [q EXCEPT !.iteratorIsComplete = TRUE]
    ELSE q

\* Faulty variant: the operations in progress are not waited for.
allDoneEarly(q) == q.iteratorIsComplete

\* The promise resolves when nothing is in progress and the iterator is complete.
allDone(q) == q.operationsInProgress = 0 /\ q.iteratorIsComplete

resolveWhenDone(q) ==
    IF ~q.promiseHasResolvedOrRejected /\ allDone(q)
    THEN [q EXCEPT !.promiseHasResolvedOrRejected = TRUE, !.promise = "resolved"]
    ELSE q

onOperationCompletion(q) ==
    IF q.promiseHasResolvedOrRejected THEN q
    ELSE IF allDone(q) THEN resolveWhenDone(q)
    ELSE IF ~q.iteratorIsComplete THEN resolveWhenDone(queueOperations(q))
    ELSE q

\* .then of a callback's promise
onFulfilled(q) ==
    onOperationCompletion([q EXCEPT !.operationsInProgress = @ - 1])

\* Faulty variant: the call is rejected but goes on starting operations.
onRejectedKeepGoing(q) ==
    [q EXCEPT !.operationsInProgress = @ - 1, !.promise = "rejected"]

\* .catch of a callback's promise: the first rejection rejects the whole call,
\* and nothing is started afterwards.
onRejected(q) ==
    [q EXCEPT !.promiseHasResolvedOrRejected = TRUE,
              !.promise = IF q.promiseHasResolvedOrRejected THEN @ ELSE "rejected"]

(***************************************************************************)
(* _generateOpenApiTypescript(entry, logger)                               *)
(***************************************************************************)
Running == {"reading", "deleting", "generating", "writing"}
Finished == {"done", "threw"}

\* The call begins: FileSystem.readFileAsync(entry.resolvedSourcePath) is issued.
NewTask(i, origin, trigger) ==
    [entry |-> i, origin |-> origin, trigger |-> trigger, pc |-> "reading",
     exit |-> None, fileContents |-> None, parsedApiFile |-> None,
     output |-> None, errs |-> <<>>, genCalls |-> 0]

\* Variant that also takes .yml for YAML.
parserForWithYml(path) ==
    IF endsWith(path, ExtYaml) \/ endsWith(path, ExtYml) THEN "yaml"
    ELSE IF endsWith(path, ExtJson) THEN "json"
    ELSE "unsupported"

\* if (endsWith(".yaml")) ... else if (endsWith(".json")) ... else ...
parserFor(path) ==
    IF endsWith(path, ExtYaml) THEN "yaml"
    ELSE IF endsWith(path, ExtJson) THEN "json"
    ELSE "unsupported"

returns(task, exit) == [task EXCEPT !.pc = "done", !.exit = exit]

emits(task, kind, path) == [task EXCEPT !.errs = Append(@, ErrorRecord(kind, path))]

\* catch of readFileAsync, isNotExistError: emitError, then deleteFileAsync is issued
onNotFound(task, entry) ==
    [emits(task, "notFound", entry.sourcePath) EXCEPT !.pc = "deleting"]

\* the else branch of the extension test
onUnsupported(task, entry) ==
    returns(emits(task, "unsupported", entry.sourcePath), "unsupported")

\* Faulty variant: the parse catch removes the output as the not-found branch does.
onParseFailureDeletes(task, entry) ==
    [emits(task, "parseFailed", entry.sourcePath) EXCEPT !.pc = "deleting"]

\* catch around the parse
onParseFailure(task, entry) ==
    returns(emits(task, "parseFailed", entry.sourcePath), "parseFailed")

\* catch around openapiTypescript
onGenerationFailure(task, entry) ==
    returns(emits(task, "genFailed", entry.sourcePath), "genFailed")

\* Faulty variant: the write catch swallows the error.
onWriteFailureSilent(task, entry) == returns(task, "writeFailed")

\* catch around writeFileAsync
onWriteFailure(task, entry) ==
    returns(emits(task, "writeFailed", entry.outputPath), "writeFailed")

\* readFileAsync settles with the state src of the source file; the code runs on
\* to the next await: deleteFileAsync, openapiTypescript, a return or the throw.
afterRead(task, entry, src) ==
    IF src = Absent THEN onNotFound(task, entry)
    ELSE IF src = Unreadable THEN [task EXCEPT !.pc = "threw"]
    ELSE LET read == [task EXCEPT !.fileContents = src]
             parser == parserFor(resolvedSourcePath(entry))
             parsed == IF parser = "yaml" THEN safeLoad(src) ELSE parseString(src)
         IN  IF parser = "unsupported" THEN onUnsupported(read, entry)
             ELSE IF parsed = ParseError THEN onParseFailure(read, entry)
             ELSE [read EXCEPT !.parsedApiFile = parsed, !.pc = "generating",
                               !.genCalls = @ + 1]

\* openapiTypescript settles; on success writeFileAsync is issued
afterGenerate(task, entry) ==
    LET generated == openapiTypescript(task.parsedApiFile)
    IN  IF generated = GenError THEN onGenerationFailure(task, entry)
        ELSE [task EXCEPT !.output = generated, !.pc = "writing"]

\* Faulty variant: the configured path is written, not the resolved one.
writeTargetUnresolved(entry) == entry.outputPath

\* writeFileAsync(entry.resolvedOutputPath, output, { ensureFolderExists: true })
writeTarget(entry) == resolvedOutputPath(entry)

\* Faulty variant: the source path is deleted, not the output.
deleteTargetSource(entry) == resolvedSourcePath(entry)

\* deleteFileAsync(entry.resolvedOutputPath)
deleteTarget(entry) == resolvedOutputPath(entry)

\* Faulty variant: the text is appended to what the file holds.
writeFileAppend(files, path, content) ==
    [p \in (DOMAIN files) \cup {path} |->
        IF p # path THEN files[p]
        ELSE IF path \in DOMAIN files /\ files[path] # Absent
        THEN <<files[path], content>>
        ELSE content]

writeFile(files, path, content) ==
    [p \in (DOMAIN files) \cup {path} |-> IF p = path THEN content ELSE files[p]]

deleteFile(files, path) ==
    [p \in DOMAIN files |-> IF p = path THEN Absent ELSE files[p]]

\* writeFileAsync settles
afterWrite(task, entry, failed) ==
    IF failed THEN onWriteFailure(task, entry) ELSE returns(task, "written")

\* deleteFileAsync settles
afterDelete(task, entry) == returns(task, "notFound")

(***************************************************************************)
(* _runOpenApiTypescriptAsync                                              *)
(***************************************************************************)
\* The continuation of `await Async.forEachAsync(...)`: a rejection propagates,
\* a resolution goes on to the watch branch.
runAfterForEach(q) ==
    CASE q.promise = "resolved" -> "returned"
      [] q.promise = "rejected" -> "threw"
      [] OTHER -> "awaitForEach"

\* Faulty variant: the watchers are registered whatever became of the batch.
watchersAfterForEachAlways(q) == DOMAIN entries

\* if (isWatchMode) { for (const entry of resolvedEntries) chokidar.watch(...) }
watchersAfterForEach(q) ==
    IF q.promise = "resolved" /\ isWatchMode THEN DOMAIN entries ELSE {}

RECURSIVE emitAll(_, _)
emitAll(l, recs) ==
    IF recs = <<>> THEN l ELSE emitAll(emitError(l, Head(recs)), Tail(recs))

\* The entries forEachAsync starts when it moves from q to q2.
started(q, q2) ==
    [k \in 1..(q2.arrayIndex - q.arrayIndex) |-> NewTask(q.arrayIndex + k, "batch", "run")]

\* _runOpenApiTypescriptAsync is called: the entries are resolved and
\* forEachAsync starts the first conversions.
RunBatch ==
    /\ runPc = "init"
    /\ LET q == [ForEachIdle EXCEPT !.length = Len(entries), !.promise = "pending"]
           q2 == resolveWhenDone(queueOperations(q))
       IN  /\ forEach' = q2
           /\ tasks' = started(q, q2)
           /\ runPc' = runAfterForEach(q2)
           /\ watchers' = watchersAfterForEach(q2)
    /\ UNCHANGED <<entries, isWatchMode, fs, fs0, readOnly, log, events, cmd>>

\* One continuation of conversion t: it becomes task2 and leaves the files as
\* files2; when the conversion settles and is one of the batch, forEachAsync's
\* reaction runs, and with it the continuation of the batch.
Advance(t, task2, files2) ==
    /\ fs' = files2
    /\ log' = emitAll(log, SubSeq(task2.errs, Len(tasks[t].errs) + 1, Len(task2.errs)))
    /\ IF task2.pc \in Finished /\ task2.origin = "batch"
       THEN LET q2 == IF task2.pc = "threw" THEN onRejected(forEach)
                      ELSE onFulfilled(forEach)
            IN  /\ forEach' = q2
                /\ tasks' = [tasks EXCEPT ![t] = task2] \o started(forEach, q2)
                /\ runPc' = runAfterForEach(q2)
                /\ watchers' = watchersAfterForEach(q2)
       ELSE /\ tasks' = [tasks EXCEPT ![t] = task2]
            /\ UNCHANGED <<forEach, runPc, watchers>>
    /\ UNCHANGED <<entries, isWatchMode, fs0, readOnly, events, cmd>>

ReadComplete(t) ==
    /\ tasks[t].pc = "reading"
    /\ LET entry == entries[tasks[t].entry]
       IN  Advance(t, afterRead(tasks[t], entry, fs[resolvedSourcePath(entry)]), fs)

GenerateComplete(t) ==
    /\ tasks[t].pc = "generating"
    /\ Advance(t, afterGenerate(tasks[t], entries[tasks[t].entry]), fs)

WriteComplete(t) ==
    /\ tasks[t].pc = "writing"
    /\ LET entry == entries[tasks[t].entry]
           failed == writeTarget(entry) \in readOnly
       IN  Advance(t, afterWrite(tasks[t], entry, failed),
                   IF failed THEN fs ELSE writeFile(fs, writeTarget(entry), tasks[t].output))

DeleteComplete(t) ==
    /\ tasks[t].pc = "deleting"
    /\ LET entry == entries[tasks[t].entry]
       IN  Advance(t, afterDelete(tasks[t], entry), deleteFile(fs, deleteTarget(entry)))

Convert ==
    \E t \in DOMAIN tasks :
        \/ ReadComplete(t)
        \/ GenerateComplete(t)
        \/ WriteComplete(t)
        \/ DeleteComplete(t)

(***************************************************************************)
(* Configurations                                                          *)
(***************************************************************************)
\* What one entry finds on disk: the extension of its source, the state of the
\* source, the prior state of its output, and whether its output can be written.
Items == [ext : Exts, src : SourceStates, out : {Absent, Stale}, ro : BOOLEAN]

Plain == [ext |-> ExtJson, src |-> "JSONDOC", out |-> Absent, ro |-> FALSE]

\* One item of each outcome.
Varied ==
    { Plain,
      [ext |-> ExtYaml, src |-> "YAMLDOC", out |-> Stale, ro |-> FALSE],
      [ext |-> ExtJson, src |-> Absent, out |-> Stale, ro |-> FALSE],
      [ext |-> ExtJson, src |-> Unreadable, out |-> Stale, ro |-> FALSE],
      [ext |-> ExtYaml, src |-> "GARBAGE", out |-> Stale, ro |-> FALSE],
      [ext |-> ExtYml, src |-> "YAMLDOC", out |-> Absent, ro |-> FALSE],
      [ext |-> ExtJson, src |-> "BADDOC", out |-> Stale, ro |-> FALSE],
      [ext |-> ExtJson, src |-> "JSONDOC", out |-> Stale, ro |-> TRUE] }

\* The outcomes that decide what a batch does with an entry: success, a
\* recoverable failure, a throw.
Decisive ==
    { Plain,
      [ext |-> ExtJson, src |-> Absent, out |-> Stale, ro |-> FALSE],
      [ext |-> ExtJson, src |-> Unreadable, out |-> Stale, ro |-> FALSE] }

EntryOf(i, item) ==
    [sourcePath |-> <<"s", Digits[i]>> \o item.ext,
     outputPath |-> <<"g", Digits[i], ".", "t", "s">>]

EntriesOf(layout) == [i \in DOMAIN layout |-> EntryOf(i, layout[i])]

FilesOf(layout) ==
    LET es == EntriesOf(layout)
        paths == {resolvedSourcePath(es[i]) : i \in DOMAIN es}
                 \cup {resolvedOutputPath(es[i]) : i \in DOMAIN es}
    IN  [p \in paths |->
            LET i == CHOOSE j \in DOMAIN es :
                        p \in {resolvedSourcePath(es[j]), resolvedOutputPath(es[j])}
            IN  IF p = resolvedSourcePath(es[i]) THEN layout[i].src ELSE layout[i].out]

ReadOnlyOf(layout) ==
    {resolvedOutputPath(EntriesOf(layout)[i]) : i \in {j \in DOMAIN layout : layout[j].ro}}

\* A batch of one entry of any kind, and the long batches: plain entries with
\* an entry of any outcome first and a succeeding, failing or throwing one last.
BatchLayouts ==
    {<<item>> : item \in Items}
    \cup {[i \in 1..NumEntries |->
              IF i = 1 THEN first ELSE IF i = NumEntries THEN last ELSE Plain]
          : first \in Varied, last \in Decisive}

CmdIdle == [pc |-> "off"]

InitWith(layout, watch) ==
    /\ entries = EntriesOf(layout)
    /\ isWatchMode = watch
    /\ fs = FilesOf(layout)
    /\ fs0 = FilesOf(layout)
    /\ readOnly = ReadOnlyOf(layout)
    /\ tasks = <<>>
    /\ log = EmptyBag
    /\ forEach = ForEachIdle
    /\ runPc = "init"
    /\ watchers = {}
    /\ events = 0
    /\ cmd = CmdIdle

Init == \E layout \in BatchLayouts : InitWith(layout, FALSE)

Next == RunBatch \/ Convert

Spec == Init /\ [][Next]_vars

(***************************************************************************)
(* Watch mode                                                              *)
(***************************************************************************)
\* File-system and watcher events of one session.
MaxEvents == 3

\* What a source can become while it is watched.
EventStates == {Absent, "JSONDOC", "YAMLDOC"}

\* chokidar's event for a change of the watched path
eventName(old, new) ==
    IF new = Absent THEN "unlink" ELSE IF old = Absent THEN "add" ELSE "change"

\* The entries whose watcher watches path: chokidar.watch(entry.resolvedSourcePath)
watching(path) == {i \in watchers : resolvedSourcePath(entries[i]) = path}

\* watcher.on("add" | "change" | "unlink", boundGenerateOpenApiTypescriptFunction):
\* each watcher of the path calls _generateOpenApiTypescript for its entry.
RECURSIVE handlers(_, _)
handlers(is, name) ==
    IF is = {} THEN <<>>
    ELSE LET i == CHOOSE j \in is : \A k \in is : j <= k
         IN  <<NewTask(i, "watch", name)>> \o handlers(is \ {i}, name)

\* The source at `path` is created, modified or deleted.
SourceEvent(path, new) ==
    /\ events < MaxEvents
    /\ fs[path] # new
    /\ fs' = [fs EXCEPT ![path] = new]
    /\ events' = events + 1
    /\ tasks' = tasks \o handlers(watching(path), eventName(fs[path], new))
    /\ UNCHANGED <<entries, isWatchMode, fs0, readOnly, log, forEach, runPc, watchers, cmd>>

\* watcher.on("error", (error) => logger.emitError(error))
WatcherError(i) ==
    /\ events < MaxEvents
    /\ i \in watchers
    /\ events' = events + 1
    /\ log' = emitError(log, ErrorRecord("watcher", resolvedSourcePath(entries[i])))
    /\ UNCHANGED <<entries, isWatchMode, fs, fs0, readOnly, tasks, forEach, runPc,
                   watchers, cmd>>

Watch ==
    \/ \E i \in DOMAIN entries, new \in EventStates :
            SourceEvent(resolvedSourcePath(entries[i]), new)
    \/ \E i \in DOMAIN entries : WatcherError(i)

\* A watched session of two entries: the first succeeds, fails or throws in the
\* initial batch, the second is plain.
WatchLayouts == {<<first, Plain>> : first \in Decisive}

InitWatch == \E layout \in WatchLayouts : InitWith(layout, TRUE)

NextWatch == RunBatch \/ Convert \/ Watch

SpecWatch == InitWatch /\ [][NextWatch]_vars

\* The source at `path` is saved again with the text it holds: chokidar reports
\* a change, and the conversion runs again on an unchanged source.
SourceTouch(path) ==
    /\ events < MaxEvents
    /\ fs[path] # Absent
    /\ events' = events + 1
    /\ tasks' = tasks \o handlers(watching(path), "change")
    /\ UNCHANGED <<entries, isWatchMode, fs, fs0, readOnly, log, forEach, runPc,
                   watchers, cmd>>

Touch == \E i \in DOMAIN entries : SourceTouch(resolvedSourcePath(entries[i]))

\* A watched session of one entry of any kind whose source is only ever saved
\* again unchanged.
InitRerun == \E item \in Items : InitWith(<<item>>, TRUE)

NextRerun == RunBatch \/ Convert \/ Touch

SpecRerun == InitRerun /\ [][NextRerun]_vars

\* A session of two entries run with or without --watch, during which the
\* sources are created, modified and deleted.
InitSession == \E layout \in WatchLayouts, watch \in BOOLEAN : InitWith(layout, watch)

SpecSession == InitSession /\ [][NextWatch]_vars

(***************************************************************************)
(* OpenApiCodegenPlugin: the preCompile hook and runOpenApiCommandAsync    *)
(***************************************************************************)
\* 'data' events of one child process.
MaxChunks == 2

\* What a 'data' event carries (data.toString()), never empty.
Chunks == {<<"a">>, <<"b", "c">>}

\* The code of the 'close' event: a status, or null (here -1) when a signal
\* ended the child; null !== 0 holds.
NullCode == -1

ExitCodes == {0, 1, NullCode}

\* path.resolve(heftConfiguration.buildFolder, options.outputFolderPath)
resolvedOutputFolderPath == resolve(buildFolder, <<"o">>)

\* `${resolvedOutputFolderPath}/openapi-generator-cli-${logsOutputBaseFilename}.stdout.log`
stdoutFilename(base) ==
    resolvedOutputFolderPath \o <<"/", "openapi-generator-cli-", base, ".stdout.log">>

stderrFilename(base) ==
    resolvedOutputFolderPath \o <<"/", "openapi-generator-cli-", base, ".stderr.log">>

\* Array.prototype.join('')
RECURSIVE join(_)
join(chunks) == IF chunks = <<>> THEN <<>> ELSE Head(chunks) \o join(Tail(chunks))

\* The two calls of the hook, in order.
Commands == <<"set-version", "generate">>

\* Executable.spawn(process.argv0, [resolvedToolPath, ...args]): a child with
\* nothing captured yet
spawn(c, n) ==
    [c EXCEPT !.pc = "running", !.command = n, !.spawned = Append(@, Commands[n]),
              !.stdout = <<>>, !.stderr = <<>>, !.wroteToStderr = FALSE,
              !.code = None, !.pending = {}]

\* Faulty variant: `if` for `else if`, both conditions are reported.
reportBoth(c) ==
    (IF c.code # 0 THEN <<ErrorRecord("exitCode", stdoutFilename(Commands[c.command]))>>
     ELSE <<>>)
    \o (IF c.wroteToStderr
        THEN <<ErrorRecord("wroteToStderr", stdoutFilename(Commands[c.command]))>>
        ELSE <<>>)

\* if (result.code !== 0) emitError(...) else if (result.wroteToStderr) emitError(...)
report(c) ==
    IF c.code # 0 THEN <<ErrorRecord("exitCode", stdoutFilename(Commands[c.command]))>>
    ELSE IF c.wroteToStderr
    THEN <<ErrorRecord("wroteToStderr", stdoutFilename(Commands[c.command]))>>
    ELSE <<>>

\* The hook after `await runOpenApiCommandAsync(...)`: 'generate' follows
\* 'set-version', and the hook returns after 'generate'.
afterCommand(c) ==
    IF c.command < Len(Commands) THEN spawn(c, c.command + 1)
    ELSE [c EXCEPT !.pc = "returned"]

CmdFrame == <<entries, isWatchMode, fs0, readOnly, tasks, forEach, runPc, watchers, events>>

\* The hook runs: the source file is resolved, and 'set-version' is spawned.
HookStart(resolvable) ==
    /\ cmd.pc = "init"
    /\ IF resolvable
       THEN cmd' = spawn(cmd, 1) /\ UNCHANGED log
       ELSE /\ cmd' = [cmd EXCEPT !.pc = "returned"]
            /\ log' = emitError(log, ErrorRecord("unresolved", <<>>))
    /\ UNCHANGED fs
    /\ UNCHANGED CmdFrame

\* childProcess.stdout.on('data')
StdoutData(chunk) ==
    /\ cmd.pc = "running"
    /\ Len(cmd.stdout) + Len(cmd.stderr) < MaxChunks
    /\ cmd' = [cmd EXCEPT !.stdout = Append(@, chunk)]
    /\ UNCHANGED <<fs, log>>
    /\ UNCHANGED CmdFrame

\* childProcess.stderr.on('data')
StderrData(chunk) ==
    /\ cmd.pc = "running"
    /\ Len(cmd.stdout) + Len(cmd.stderr) < MaxChunks
    /\ cmd' = [cmd EXCEPT !.stderr = Append(@, chunk), !.wroteToStderr = TRUE]
    /\ UNCHANGED <<fs, log>>
    /\ UNCHANGED CmdFrame

\* childProcess.on('close'): the promise resolves, ensureFolderAsync is issued
Close(code) ==
    /\ cmd.pc = "running"
    /\ cmd' = [cmd EXCEPT !.pc = "ensureFolder", !.code = code]
    /\ UNCHANGED <<fs, log>>
    /\ UNCHANGED CmdFrame

\* ensureFolderAsync settles: the two writeFileAsync of Promise.all are issued
EnsureFolderComplete ==
    /\ cmd.pc = "ensureFolder"
    /\ cmd' = [cmd EXCEPT !.pc = "writingLogs", !.pending = {"stdout", "stderr"}]
    /\ UNCHANGED <<fs, log>>
    /\ UNCHANGED CmdFrame

\* One writeFileAsync settles; after the second, Promise.all resolves, the
\* result is reported, the run returns and the hook goes on.
LogWriteComplete(which) ==
    /\ cmd.pc = "writingLogs"
    /\ which \in cmd.pending
    /\ fs' = IF which = "stdout"
             THEN writeFile(fs, stdoutFilename(Commands[cmd.command]), join(cmd.stdout))
             ELSE writeFile(fs, stderrFilename(Commands[cmd.command]), join(cmd.stderr))
    /\ IF cmd.pending = {which}
       THEN /\ log' = emitAll(log, report(cmd))
            /\ cmd' = afterCommand(
                    [cmd EXCEPT !.pending = {},
                                !.finished = Append(@,
                                    [name |-> Commands[cmd.command], code |-> cmd.code,
                                     stdout |-> cmd.stdout, stderr |-> cmd.stderr,
                                     reported |-> Len(report(cmd))])])
       ELSE /\ cmd' = [cmd EXCEPT !.pending = @ \ {which}]
            /\ UNCHANGED log
    /\ UNCHANGED CmdFrame

NextCmd ==
    \/ \E resolvable \in BOOLEAN : HookStart(resolvable)
    \/ \E chunk \in Chunks : StdoutData(chunk)
    \/ \E chunk \in Chunks : StderrData(chunk)
    \/ \E code \in ExitCodes : Close(code)
    \/ EnsureFolderComplete
    \/ \E which \in {"stdout", "stderr"} : LogWriteComplete(which)

CmdInit ==
    [pc |-> "init", command |-> 0, spawned |-> <<>>, stdout |-> <<>>, stderr |-> <<>>,
     wroteToStderr |-> FALSE, code |-> None, pending |-> {}, finished |-> <<>>]

\* The output folder holds no logs, or logs of an earlier build.
InitCmd ==
    /\ entries = <<>>
    /\ isWatchMode = FALSE
    /\ \E old \in {Absent, Stale} :
            fs = [p \in {stdoutFilename(Commands[1]), stderrFilename(Commands[1]),
                         stdoutFilename(Commands[2]), stderrFilename(Commands[2])} |-> old]
    /\ fs0 = fs
    /\ readOnly = {}
    /\ tasks = <<>>
    /\ log = EmptyBag
    /\ forEach = ForEachIdle
    /\ runPc = "init"
    /\ watchers = {}
    /\ events = 0
    /\ cmd = CmdInit

SpecCmd == InitCmd /\ [][NextCmd]_vars

(***************************************************************************)
(* Properties of the batch                                                 *)
(***************************************************************************)
BatchTasks == {t \in DOMAIN tasks : tasks[t].origin = "batch"}

InFlight == {t \in BatchTasks : tasks[t].pc \in Running}

EntryOfTask(t) == entries[tasks[t].entry]

SourceFile(t) == fs[resolve(buildFolder, EntryOfTask(t).sourcePath)]

OutputFile(t) == fs[resolve(buildFolder, EntryOfTask(t).outputPath)]

PriorOutputFile(t) == fs0[resolve(buildFolder, EntryOfTask(t).outputPath)]

RecoverableKinds == {"notFound", "unsupported", "parseFailed", "genFailed", "writeFailed"}

Generated == {"TS_J", "TS_Y"}

AllAttempted ==
    \A i \in DOMAIN entries :
        \E t \in DOMAIN tasks : tasks[t].entry = i /\ tasks[t].pc \in Finished

\* C1: during a batch run at most 5 conversions have started and not finished.
C1_ConcurrencyCap == Cardinality(InFlight) <= 5

\* Five conversions are in flight while an entry waits for a free slot.
C1_Witness ==
    /\ Cardinality(InFlight) = 5
    /\ forEach.arrayIndex < Len(entries)

\* C2: when the batch has returned, every entry was attempted, and every entry
\* that did not end in a recoverable failure has its generated output at its
\* resolved output path, whatever failed beside it.
C2_SurvivorsWritten ==
    runPc = "returned" =>
        \A i \in DOMAIN entries :
            /\ i \in DOMAIN tasks
            /\ tasks[i].entry = i
            /\ tasks[i].pc = "done"
            /\ \/ tasks[i].errs # <<>> /\ tasks[i].errs[1].kind \in RecoverableKinds
               \/ /\ tasks[i].output \in Generated
                  /\ OutputFile(i) = tasks[i].output

\* A long batch has returned with a failed entry and a written one.
C2_Witness ==
    /\ runPc = "returned"
    /\ Len(entries) = NumEntries
    /\ \E i \in DOMAIN tasks : tasks[i].errs # <<>>
    /\ \E j \in DOMAIN tasks : tasks[j].errs = <<>> /\ OutputFile(j) \in Generated

C5_MissingSource ==
    \A t \in DOMAIN tasks :
        (tasks[t].pc \in Finished /\ SourceFile(t) = Absent) =>
            /\ tasks[t].pc = "done"
            /\ OutputFile(t) = Absent
            /\ tasks[t].errs = <<[kind |-> "notFound", path |-> EntryOfTask(t).sourcePath]>>
            /\ CopiesIn([kind |-> "notFound", path |-> EntryOfTask(t).sourcePath], log) >= 1

\* A conversion with a missing source has removed an output that existed.
C5_Witness ==
    \E t \in DOMAIN tasks :
        /\ tasks[t].pc = "done"
        /\ SourceFile(t) = Absent
        /\ PriorOutputFile(t) = Stale
        /\ OutputFile(t) = Absent

\* C6: a conversion that logged an unsupported-format, parse or generation
\* error leaves the resolved output as it was.
C6_OutputUntouched ==
    \A t \in DOMAIN tasks :
        (/\ tasks[t].pc \in Finished
         /\ tasks[t].errs # <<>>
         /\ tasks[t].errs[1].kind \in {"unsupported", "parseFailed", "genFailed"}) =>
            OutputFile(t) = PriorOutputFile(t)

\* A parse failure has left an existing output in place.
C6_Witness ==
    \E t \in DOMAIN tasks :
        /\ tasks[t].pc = "done"
        /\ tasks[t].errs # <<>>
        /\ tasks[t].errs[1].kind = "parseFailed"
        /\ PriorOutputFile(t) = Stale
        /\ OutputFile(t) = Stale

\* A conversion past its read went through the parser `parse`.
Routed(t, parsed) ==
    IF parsed = ParseError
    THEN tasks[t].errs = <<[kind |-> "parseFailed", path |-> EntryOfTask(t).sourcePath]>>
    ELSE tasks[t].parsedApiFile = parsed /\ tasks[t].genCalls = 1

Rejected(t) ==
    /\ tasks[t].errs = <<[kind |-> "unsupported", path |-> EntryOfTask(t).sourcePath]>>
    /\ tasks[t].genCalls = 0
    /\ tasks[t].output = None
    /\ OutputFile(t) = PriorOutputFile(t)

PastRead(t) == tasks[t].fileContents # None

\* C7 as claimed: .yaml and .yml go to the YAML parser, .json to the JSON
\* parser, any other extension is rejected as unsupported.
C7_Original ==
    \A t \in DOMAIN tasks :
        PastRead(t) =>
            LET p == EntryOfTask(t).sourcePath
            IN  IF endsWith(p, ExtYaml) \/ endsWith(p, ExtYml)
                THEN Routed(t, safeLoad(tasks[t].fileContents))
                ELSE IF endsWith(p, ExtJson)
                THEN Routed(t, parseString(tasks[t].fileContents))
                ELSE Rejected(t)

\* C7 amended: .yaml goes to the YAML parser and .json to the JSON parser; any
\* other extension, .yml included, is rejected as unsupported.
C7_Amended ==
    \A t \in DOMAIN tasks :
        PastRead(t) =>
            LET p == EntryOfTask(t).sourcePath
            IN  IF endsWith(p, ExtYaml)
                THEN Routed(t, safeLoad(tasks[t].fileContents))
                ELSE IF endsWith(p, ExtJson)
                THEN Routed(t, parseString(tasks[t].fileContents))
                ELSE Rejected(t)

\* A readable .yml source holding valid YAML has been rejected, beside its
\* existing output.
C7_Witness ==
    \E t \in DOMAIN tasks :
        /\ tasks[t].pc = "done"
        /\ endsWith(EntryOfTask(t).sourcePath, ExtYml)
        /\ tasks[t].fileContents = "YAMLDOC"
        /\ PriorOutputFile(t) = Stale

RECURSIVE Emitted(_)
Emitted(n) == IF n = 0 THEN 0 ELSE Len(tasks[n].errs) + Emitted(n - 1)

\* C8: a finished conversion that wrote its output logged nothing; one that
\* ended in a recoverable error logged exactly one record, of that error, naming
\* a path of its entry; the logger holds these records and no others.
C8_OneErrorEach ==
    /\ \A t \in DOMAIN tasks :
            tasks[t].pc = "done" =>
                IF tasks[t].exit = "written"
                THEN tasks[t].errs = <<>> /\ OutputFile(t) = tasks[t].output
                ELSE /\ Len(tasks[t].errs) = 1
                     /\ tasks[t].errs[1].kind = tasks[t].exit
                     /\ tasks[t].exit \in RecoverableKinds
                     /\ tasks[t].errs[1].path
                            \in {EntryOfTask(t).sourcePath, EntryOfTask(t).outputPath}
                     /\ BagIn(tasks[t].errs[1], log)
    /\ BagCardinality(log) = Emitted(Len(tasks))

\* A long batch has finished with a write failure logged once and an output
\* written silently.
C8_Witness ==
    /\ Len(tasks) = NumEntries
    /\ \A t \in DOMAIN tasks : tasks[t].pc = "done"
    /\ \E t \in DOMAIN tasks : tasks[t].exit = "writeFailed" /\ Len(tasks[t].errs) = 1
    /\ \E t \in DOMAIN tasks : tasks[t].exit = "written" /\ tasks[t].errs = <<>>

(***************************************************************************)
(* Properties of watch mode                                                *)
(***************************************************************************)
TasksOf(i) == {t \in DOMAIN tasks : tasks[t].entry = i}

\* C9 as claimed: every watch-triggered conversion runs for an entry whose
\* watcher is registered, and once a watched source has been deleted and every
\* conversion of its entry has finished, the resolved output is absent and a
\* not-found error naming the entry has been logged.
C9_NoStaleOutput ==
    /\ \A t \in DOMAIN tasks :
            tasks[t].origin = "watch" =>
                (tasks[t].entry \in watchers
                    /\ tasks[t].trigger \in {"add", "change", "unlink"})
    /\ \A i \in watchers :
            (/\ fs[resolve(buildFolder, entries[i].sourcePath)] = Absent
             /\ \E t \in TasksOf(i) : tasks[t].trigger = "unlink"
             /\ \A t \in TasksOf(i) : tasks[t].pc \in Finished)
            => /\ fs[resolve(buildFolder, entries[i].outputPath)] = Absent
               /\ BagIn([kind |-> "notFound", path |-> entries[i].sourcePath], log)

(***************************************************************************)
(* Properties of runOpenApiCommandAsync                                    *)
(***************************************************************************)
RECURSIVE Reported(_)
Reported(n) == IF n = 0 THEN 0 ELSE cmd.finished[n].reported + Reported(n - 1)

\* C10: every finished run left what it captured in its two log files, reported
\* exactly one error if its exit code was not 0 or it wrote to stderr and none
\* otherwise, an error being reported only with both logs written; and a
\* finished 'set-version', failed or not, was followed by the spawn of 'generate'.
C10_RunReports ==
    /\ \A k \in DOMAIN cmd.finished :
            LET run == cmd.finished[k]
                out == buildFolder
                        \o <<"/", "o", "/", "openapi-generator-cli-", run.name, ".stdout.log">>
                err == buildFolder
                        \o <<"/", "o", "/", "openapi-generator-cli-", run.name, ".stderr.log">>
            IN  /\ fs[out] = join(run.stdout)
                /\ fs[err] = join(run.stderr)
                /\ run.reported = IF run.code # 0 \/ join(run.stderr) # <<>> THEN 1 ELSE 0
    /\ cmd.pc # "init" /\ cmd.spawned # <<>> =>
            BagCardinality(log) = Reported(Len(cmd.finished))
    /\ Len(cmd.finished) >= 1 =>
            (cmd.finished[1].name = "set-version"
                /\ Len(cmd.spawned) = 2 /\ cmd.spawned[2] = "generate")

\* 'set-version' exited with a status other than 0 after writing to stderr and
\* was reported once; 'generate' then ran cleanly and was not reported.
C10_Witness ==
    /\ cmd.pc = "returned"
    /\ Len(cmd.finished) = 2
    /\ cmd.finished[1].code = 1
    /\ cmd.finished[1].stderr # <<>>
    /\ cmd.finished[1].reported = 1
    /\ cmd.finished[2].code = 0
    /\ cmd.finished[2].stdout # <<>>
    /\ cmd.finished[2].reported = 0

(***************************************************************************)
(* Properties of the written output                                        *)
(***************************************************************************)
\* What the generator makes of the source of entry i: the text parsed by the
\* parser of its extension, then generated; None where a step fails.
GeneratorOutput(i) ==
    LET p == entries[i].sourcePath
        text == fs[resolve(buildFolder, p)]
        doc == IF text \notin Texts THEN ParseError
               ELSE IF endsWith(p, ExtYaml) THEN safeLoad(text)
               ELSE IF endsWith(p, ExtJson) THEN parseString(text)
               ELSE ParseError
    IN  IF doc = ParseError \/ openapiTypescript(doc) = GenError THEN None
        ELSE openapiTypescript(doc)

Convertible(i) ==
    /\ GeneratorOutput(i) # None
    /\ resolve(buildFolder, entries[i].outputPath) \notin readOnly

\* C11: once a conversion of an entry whose source is readable, of a supported
\* extension, parseable, generable and writable has finished, the resolved
\* output holds exactly the generator's output for the parsed source; and from
\* then on running the conversion again on the unchanged source never changes
\* the content of the output.
C11_OutputIsGenerated ==
    /\ [](\A t \in DOMAIN tasks :
            (tasks[t].pc \in Finished /\ Convertible(tasks[t].entry)) =>
                /\ tasks[t].pc = "done"
                /\ tasks[t].output = GeneratorOutput(tasks[t].entry)
                /\ OutputFile(t) = GeneratorOutput(tasks[t].entry))
    /\ [][\A i \in DOMAIN entries :
            (Convertible(i) /\ \E t \in TasksOf(i) : tasks[t].pc \in Finished) =>
                fs'[resolve(buildFolder, entries[i].outputPath)]
                    = fs[resolve(buildFolder, entries[i].outputPath)]]_vars

\* A YAML source was converted over a stale output, then converted again after
\* it was saved unchanged, and the output holds the generated text.
C11_Witness ==
    \E t1, t2 \in DOMAIN tasks :
        /\ t1 < t2
        /\ tasks[t1].entry = tasks[t2].entry
        /\ tasks[t1].pc = "done" /\ tasks[t1].exit = "written"
        /\ tasks[t2].origin = "watch"
        /\ tasks[t2].pc = "done" /\ tasks[t2].exit = "written"
        /\ tasks[t2].fileContents = "YAMLDOC"
        /\ PriorOutputFile(t2) = Stale
        /\ OutputFile(t2) = "TS_Y"

(***************************************************************************)
(* Properties of the watch subscriptions                                   *)
(***************************************************************************)
WatchTasks == {t \in DOMAIN tasks : tasks[t].origin = "watch"}

\* C12: watchers exist only in watch mode and only once the initial batch has
\* returned successfully; a step that starts a watcher-triggered conversion is
\* taken with no batch conversion in flight; and once the batch has rejected
\* it stays rejected and no entry is ever watched.
C12_WatchAfterBatch ==
    /\ [](watchers # {} =>
            /\ isWatchMode
            /\ forEach.promise = "resolved"
            /\ runPc = "returned"
            /\ \A t \in BatchTasks : tasks[t].pc \in Finished)
    /\ [](WatchTasks # {} => watchers # {} /\ InFlight = {})
    /\ [][(\E t \in DOMAIN tasks' : t \notin DOMAIN tasks /\ tasks'[t].origin = "watch")
            => (InFlight = {} /\ runPc = "returned")]_vars
    /\ []((forEach.promise = "rejected" \/ runPc = "threw") =>
            watchers = {} /\ WatchTasks = {})
    /\ [][forEach.promise = "rejected" =>
            (forEach'.promise = "rejected" /\ watchers' = {})]_vars

\* In watch mode the batch returned, every entry is watched, and a conversion
\* started by a watcher is running.
C12_Witness ==
    /\ isWatchMode
    /\ runPc = "returned"
    /\ watchers = DOMAIN entries
    /\ \E t \in WatchTasks : tasks[t].pc \in Running

\* In watch mode the batch rejected on an unreadable source while another
\* conversion of the batch was still in flight, and sources changed afterwards.
C12_RejectedUnwatched ==
    /\ isWatchMode
    /\ forEach.promise = "rejected"
    /\ InFlight # {}
    /\ events > 0
    /\ watchers = {}

\* Without --watch the batch returned and sources changed afterwards.
C12_NotWatchMode ==
    /\ ~isWatchMode
    /\ runPc = "returned"
    /\ events > 0
    /\ watchers = {}

====
